---- MODULE Spec2Model ----
(***************************************************************************)
(* A model of the PyPowerUp Streamlit app (src/app.py): the three helper   *)
(* functions calculate_multiplier, get_df_for_design and                   *)
(* estimate_design_effect, and the rerun loop of main() with its session   *)
(* state, its Calculate dispatch and its two sensitivity curves.           *)
(*                                                                         *)
(* Numbers.  Probabilities (alpha, power) are integers in units of         *)
(* 1/ProbScale, so that alpha / 2 is exact for the values used.  A float   *)
(* that may be infinite or NaN is a record [k, v]: k is "fin" (v in        *)
(* thousandths), "inf", "-inf" or "nan".  rho_ts is in units of            *)
(* 1/RhoScale and a design effect is an exact fraction [num, den].         *)
(***************************************************************************)
EXTENDS Integers, Sequences, FiniteSets, TLC

VARIABLES
    call,             \* the helper call under evaluation (function, arguments)
    ret,              \* its outcome: pending, returned (val) or raised (exc)
    calc_mode,        \* sidebar radio "Calculation Type"
    selected_design,  \* sidebar design selection (a key of DESIGNS)
    designs,          \* the module global DESIGNS (a mutable dict of dicts)
    session_state,    \* st.session_state: a dict, holding at most last_result
    lib_calls,        \* the pypowerup calls made by the latest run
    view              \* what the latest run rendered

vars == <<call, ret, calc_mode, selected_design, designs, session_state, lib_calls, view>>

(***************************************************************************)
(* Bounds of the model.                                                    *)
(***************************************************************************)
MaxDf == 3
MaxCount == 4
MaxG == 2
MaxRho == 150

ProbScale == 2000
RhoScale == 100

(***************************************************************************)
(* Dicts: a Python dict is a function whose domain is its key set.         *)
(***************************************************************************)
EmptyDict == [k \in {} |-> 0]

Get(d, k, default) == IF k \in DOMAIN d THEN d[k] ELSE default

Pop(d, k) == [x \in (DOMAIN d) \ {k} |-> d[x]]

Put(d, k, v) == [x \in (DOMAIN d) \cup {k} |-> IF x = k THEN v ELSE d[x]]

Max(a, b) == IF a >= b THEN a ELSE b

(***************************************************************************)
(* Floats that may be infinite or NaN (IEEE 754 addition, negation, abs).  *)
(***************************************************************************)
Fin(v) == [k |-> "fin", v |-> v]
PosInf == [k |-> "inf", v |-> 0]
NegInf == [k |-> "-inf", v |-> 0]
NaN == [k |-> "nan", v |-> 0]

XNeg(a) ==
    CASE a.k = "fin" -> Fin(0 - a.v)
      [] a.k = "inf" -> NegInf
      [] a.k = "-inf" -> PosInf
      [] OTHER -> NaN

XAbs(a) ==
    CASE a.k = "fin" -> Fin(IF a.v < 0 THEN 0 - a.v ELSE a.v)
      [] a.k = "nan" -> NaN
      [] OTHER -> PosInf

XAdd(a, b) ==
    CASE a.k = "nan" \/ b.k = "nan" -> NaN
      [] a.k = "fin" /\ b.k = "fin" -> Fin(a.v + b.v)
      [] a.k = "fin" -> b
      [] b.k = "fin" -> a
      [] a.k = b.k -> a
      [] OTHER -> NaN

XSub(a, b) == XAdd(a, XNeg(b))

IsFinite(a) == a.k = "fin"

(***************************************************************************)
(* scipy.stats.t.ppf: the quantile function of the central Student-t       *)
(* distribution, in thousandths, tabulated for df = 1..40 at the upper     *)
(* probabilities of UpperProbs (units of 1/ProbScale).  The lower half     *)
(* follows by symmetry; ppf(0) = -inf, ppf(1) = +inf, and a probability    *)
(* outside [0, 1] or df <= 0 gives NaN.                                    *)
(***************************************************************************)
UpperProbs == <<1000, 1200, 1600, 1800, 1900, 1950, 1980, 1998, 1999>>

TTable == <<
    <<0, 325, 1376, 3078, 6314, 12706, 31821, 318309, 636619>>,
    <<0, 289, 1061, 1886, 2920, 4303, 6965, 22327, 31599>>,
    <<0, 277, 978, 1638, 2353, 3182, 4541, 10215, 12924>>,
    <<0, 271, 941, 1533, 2132, 2776, 3747, 7173, 8610>>,
    <<0, 267, 920, 1476, 2015, 2571, 3365, 5893, 6869>>,
    <<0, 265, 906, 1440, 1943, 2447, 3143, 5208, 5959>>,
    <<0, 263, 896, 1415, 1895, 2365, 2998, 4785, 5408>>,
    <<0, 262, 889, 1397, 1860, 2306, 2896, 4501, 5041>>,
    <<0, 261, 883, 1383, 1833, 2262, 2821, 4297, 4781>>,
    <<0, 260, 879, 1372, 1812, 2228, 2764, 4144, 4587>>,
    <<0, 260, 876, 1363, 1796, 2201, 2718, 4025, 4437>>,
    <<0, 259, 873, 1356, 1782, 2179, 2681, 3930, 4318>>,
    <<0, 259, 870, 1350, 1771, 2160, 2650, 3852, 4221>>,
    <<0, 258, 868, 1345, 1761, 2145, 2624, 3787, 4140>>,
    <<0, 258, 866, 1341, 1753, 2131, 2602, 3733, 4073>>,
    <<0, 258, 865, 1337, 1746, 2120, 2583, 3686, 4015>>,
    <<0, 257, 863, 1333, 1740, 2110, 2567, 3646, 3965>>,
    <<0, 257, 862, 1330, 1734, 2101, 2552, 3610, 3922>>,
    <<0, 257, 861, 1328, 1729, 2093, 2539, 3579, 3883>>,
    <<0, 257, 860, 1325, 1725, 2086, 2528, 3552, 3850>>,
    <<0, 257, 859, 1323, 1721, 2080, 2518, 3527, 3819>>,
    <<0, 256, 858, 1321, 1717, 2074, 2508, 3505, 3792>>,
    <<0, 256, 858, 1319, 1714, 2069, 2500, 3485, 3768>>,
    <<0, 256, 857, 1318, 1711, 2064, 2492, 3467, 3745>>,
    <<0, 256, 856, 1316, 1708, 2060, 2485, 3450, 3725>>,
    <<0, 256, 856, 1315, 1706, 2056, 2479, 3435, 3707>>,
    <<0, 256, 855, 1314, 1703, 2052, 2473, 3421, 3690>>,
    <<0, 256, 855, 1313, 1701, 2048, 2467, 3408, 3674>>,
    <<0, 256, 854, 1311, 1699, 2045, 2462, 3396, 3659>>,
    <<0, 256, 854, 1310, 1697, 2042, 2457, 3385, 3646>>,
    <<0, 256, 853, 1309, 1696, 2040, 2453, 3375, 3633>>,
    <<0, 255, 853, 1309, 1694, 2037, 2449, 3365, 3622>>,
    <<0, 255, 853, 1308, 1692, 2035, 2445, 3356, 3611>>,
    <<0, 255, 852, 1307, 1691, 2032, 2441, 3348, 3601>>,
    <<0, 255, 852, 1306, 1690, 2030, 2438, 3340, 3591>>,
    <<0, 255, 852, 1306, 1688, 2028, 2434, 3333, 3582>>,
    <<0, 255, 851, 1305, 1687, 2026, 2431, 3326, 3574>>,
    <<0, 255, 851, 1304, 1686, 2024, 2429, 3319, 3566>>,
    <<0, 255, 851, 1304, 1685, 2023, 2426, 3313, 3558>>,
    <<0, 255, 851, 1303, 1684, 2021, 2423, 3307, 3551>>
  >>

ProbIndex(p) == CHOOSE i \in DOMAIN UpperProbs : UpperProbs[i] = p

TPpf(p, df) ==
    CASE df <= 0 \/ p < 0 \/ p > ProbScale -> NaN
      [] OTHER ->
         CASE p = 0 -> NegInf
           [] p = ProbScale -> PosInf
           [] 2 * p >= ProbScale -> Fin(TTable[df][ProbIndex(p)])
           [] OTHER -> Fin(0 - TTable[df][ProbIndex(ProbScale - p)])

(***************************************************************************)
(* calculate_multiplier(alpha, power, df, two_tailed): the triple          *)
(* (M, T1, T2).  two_tailed is the integer 1 or 2 of the form.             *)
(***************************************************************************)
\* Faulty variant: alpha is halved for every tails value other than 1.
EffectiveAlpha_HalvedUnlessOne(alpha, two_tailed) ==
    IF two_tailed # 1 THEN alpha \div 2 ELSE alpha

\* Faulty variant: alpha is halved for the one-tailed test instead.
EffectiveAlpha_HalvesOneTailed(alpha, two_tailed) ==
    IF two_tailed = 1 THEN alpha \div 2 ELSE alpha

EffectiveAlpha(alpha, two_tailed) == IF two_tailed = 2 THEN alpha \div 2 ELSE alpha

\* Faulty variant: M is T1 + T2 whatever the power.
calculate_multiplier_AlwaysAdds(alpha, power, df, two_tailed) ==
    LET a == IF two_tailed = 2 THEN alpha \div 2 ELSE alpha
        t1 == TPpf(ProbScale - a, df)
        t2 == XAbs(TPpf(ProbScale - power, df))
    IN <<XAdd(t1, t2), t1, t2>>

\* Faulty variant: M is T1 - T2 whatever the power.
calculate_multiplier_AlwaysSubtracts(alpha, power, df, two_tailed) ==
    LET a == IF two_tailed = 2 THEN alpha \div 2 ELSE alpha
        t1 == TPpf(ProbScale - a, df)
        t2 == XAbs(TPpf(ProbScale - power, df))
    IN <<XSub(t1, t2), t1, t2>>

calculate_multiplier(alpha, power, df, two_tailed) ==
    LET a == EffectiveAlpha(alpha, two_tailed)
        t1 == TPpf(ProbScale - a, df)
        t2 == XAbs(TPpf(ProbScale - power, df))
        m == IF 2 * power >= ProbScale THEN XAdd(t1, t2) ELSE XSub(t1, t2)
    IN <<m, t1, t2>>

(***************************************************************************)
(* get_df_for_design(design_id, params): degrees of freedom.               *)
(***************************************************************************)
DfDesigns ==
    {"ira", "bira2_1c", "bira2_1f", "bira2_1r", "bira3_1r", "bira4_1r",
     "cra2_2r", "cra3_3r", "cra4_4r", "bcra3_2f", "bcra3_2r", "bcra4_2r",
     "bcra4_3f", "bcra4_3r", "rd2_1f", "rd2_1r", "rdc_2r", "rdc_3r",
     "rd3_2f", "its"}

\* Faulty variant: the rd3_2f row is a copy of the bcra3_2f row.
df_formulas_CopiedRow(n, J, K, L, g, T) ==
    [d \in DfDesigns |->
        CASE d = "ira" -> n - g - 2
          [] d = "bira2_1c" -> J * (n - 1) - g - 1
          [] d \in {"bira2_1f", "rd2_1f"} -> J * (n - 2) - g
          [] d \in {"bira2_1r", "rd2_1r"} -> J - g - 1
          [] d \in {"bira3_1r", "bcra3_2r"} -> K - g - 1
          [] d \in {"bira4_1r", "bcra4_2r", "bcra4_3r"} -> L - g - 1
          [] d \in {"cra2_2r", "rdc_2r"} -> J - g - 2
          [] d \in {"cra3_3r", "rdc_3r"} -> K - g - 2
          [] d = "cra4_4r" -> L - g - 2
          [] d \in {"bcra3_2f", "rd3_2f"} -> K * (J - 2) - g
          [] d = "bcra4_3f" -> L * (K - 2) - g
          [] d = "its" -> K * T - g - 1]

df_formulas(n, J, K, L, g, T) ==
    [d \in DfDesigns |->
        CASE d = "ira" -> n - g - 2
          [] d = "bira2_1c" -> J * (n - 1) - g - 1
          [] d = "bira2_1f" -> J * (n - 2) - g
          [] d = "bira2_1r" -> J - g - 1
          [] d = "bira3_1r" -> K - g - 1
          [] d = "bira4_1r" -> L - g - 1
          [] d = "cra2_2r" -> J - g - 2
          [] d = "cra3_3r" -> K - g - 2
          [] d = "cra4_4r" -> L - g - 2
          [] d = "bcra3_2f" -> K * (J - 2) - g
          [] d = "bcra3_2r" -> K - g - 1
          [] d = "bcra4_2r" -> L - g - 1
          [] d = "bcra4_3f" -> L * (K - 2) - g
          [] d = "bcra4_3r" -> L - g - 1
          [] d = "rd2_1f" -> J * (n - 2) - g
          [] d = "rd2_1r" -> J - g - 1
          [] d = "rdc_2r" -> J - g - 2
          [] d = "rdc_3r" -> K - g - 2
          [] d = "rd3_2f" -> K * (J - 1) - g
          [] d = "its" -> K * T - g - 1]

\* Faulty variant: the result is not floored at 1.
get_df_for_design_Unclamped(design_id, params) ==
    Get(df_formulas(Get(params, "n", 30), Get(params, "J", 10), Get(params, "K", 10),
                    Get(params, "L", 10), Get(params, "g", 0), Get(params, "T", 5)),
        design_id, 10)

\* Faulty variant: absent counts fall back to the form defaults instead.
get_df_for_design_FormDefaults(design_id, params) ==
    Max(1, Get(df_formulas(Get(params, "n", 55), Get(params, "J", 20), Get(params, "K", 20),
                           Get(params, "L", 20), Get(params, "g", 1), Get(params, "T", 5)),
               design_id, 10))

\* Faulty variant: the library ids of the ITS design get the "its" formula.
get_df_for_design_ItsLibraryIds(design_id, params) ==
    Max(1, Get(df_formulas(Get(params, "n", 30), Get(params, "J", 10), Get(params, "K", 10),
                           Get(params, "L", 10), Get(params, "g", 0), Get(params, "T", 5)),
               IF design_id \in {"its_nocompare", "its_wcompare"} THEN "its" ELSE design_id,
               10))

get_df_for_design(design_id, params) ==
    LET n == Get(params, "n", 30)
        J == Get(params, "J", 10)
        K == Get(params, "K", 10)
        L == Get(params, "L", 10)
        g == Get(params, "g", 0)
        T == Get(params, "T", 5)
    IN Max(1, Get(df_formulas(n, J, K, L, g, T), design_id, 10))

(***************************************************************************)
(* estimate_design_effect(rho_ts): 1 / (1 - rho_ts^2) as an exact          *)
(* fraction with a positive denominator; Python raises ZeroDivisionError   *)
(* on a float division by zero.                                            *)
(***************************************************************************)
Returned(v) == [st |-> "returned", val |-> v]
Raised(e) == [st |-> "raised", exc |-> e]
Pending == [st |-> "pending"]

Rat(num, den) ==
    IF den < 0 THEN [k |-> "rat", num |-> 0 - num, den |-> 0 - den]
    ELSE [k |-> "rat", num |-> num, den |-> den]

PyDiv(num, den) ==
    IF den = 0 THEN Raised("ZeroDivisionError") ELSE Returned(Rat(num, den))

\* Faulty variant: both ends of the range are guarded.
estimate_design_effect_GuardsBothEnds(rho_ts) ==
    IF rho_ts >= RhoScale \/ rho_ts <= 0 - RhoScale
    THEN Returned(PosInf)
    ELSE PyDiv(RhoScale * RhoScale, RhoScale * RhoScale - rho_ts * rho_ts)

estimate_design_effect(rho_ts) ==
    IF rho_ts >= RhoScale
    THEN Returned(PosInf)
    ELSE PyDiv(RhoScale * RhoScale, RhoScale * RhoScale - rho_ts * rho_ts)

(***************************************************************************)
(* DESIGNS: the design table (module global, a dict of dicts).             *)
(***************************************************************************)
DesignIds ==
    <<"ira", "bira2_1c", "bira2_1f", "bira2_1r", "bira3_1r", "bira4_1r",
      "cra2_2r", "cra3_3r", "cra4_4r", "bcra3_2f", "bcra3_2r", "bcra4_2r",
      "bcra4_3f", "bcra4_3r", "rd2_1f", "rd2_1r", "rdc_2r", "rdc_3r",
      "rd3_2f", "its">>

DesignNumber(d) ==
    CASE d = "ira" -> "1.0"
      [] d = "bira2_1c" -> "2.1" [] d = "bira2_1f" -> "2.2"
      [] d = "bira2_1r" -> "2.3" [] d = "bira3_1r" -> "2.4"
      [] d = "bira4_1r" -> "2.5"
      [] d = "cra2_2r" -> "3.1" [] d = "cra3_3r" -> "3.2"
      [] d = "cra4_4r" -> "3.3"
      [] d = "bcra3_2f" -> "4.1" [] d = "bcra3_2r" -> "4.2"
      [] d = "bcra4_2r" -> "4.3" [] d = "bcra4_3f" -> "4.4"
      [] d = "bcra4_3r" -> "4.5"
      [] d = "rd2_1f" -> "5.1" [] d = "rd2_1r" -> "5.2"
      [] d = "rdc_2r" -> "5.3" [] d = "rdc_3r" -> "5.4"
      [] d = "rd3_2f" -> "5.5"
      [] d = "its" -> "6.0"

DesignParamsOrder(d) ==
    CASE d = "ira" ->
           <<"alpha", "two_tailed", "power", "p", "r21", "g", "n">>
      [] d \in {"bira2_1c", "bira2_1f"} ->
           <<"alpha", "two_tailed", "power", "p", "r21", "g", "n", "J">>
      [] d = "bira2_1r" ->
           <<"alpha", "two_tailed", "power", "rho2", "omega2", "p", "r21",
             "r2t2", "g", "n", "J">>
      [] d = "bira3_1r" ->
           <<"alpha", "two_tailed", "power", "rho3", "rho2", "omega3",
             "omega2", "p", "r21", "r2t2", "r2t3", "g", "n", "J", "K">>
      [] d = "bira4_1r" ->
           <<"alpha", "two_tailed", "power", "rho4", "rho3", "rho2",
             "omega4", "omega3", "omega2", "p", "r21", "r2t2", "r2t3",
             "r2t4", "g", "n", "J", "K", "L">>
      [] d = "cra2_2r" ->
           <<"alpha", "two_tailed", "power", "rho2", "p", "r21", "r22", "g",
             "n", "J">>
      [] d = "cra3_3r" ->
           <<"alpha", "two_tailed", "power", "rho3", "rho2", "p", "r21",
             "r22", "r23", "g", "n", "J", "K">>
      [] d = "cra4_4r" ->
           <<"alpha", "two_tailed", "power", "rho4", "rho3", "rho2", "p",
             "r21", "r22", "r23", "r24", "g", "n", "J", "K", "L">>
      [] d = "bcra3_2f" ->
           <<"alpha", "two_tailed", "power", "rho2", "p", "r21", "r22", "g",
             "n", "J", "K">>
      [] d = "bcra3_2r" ->
           <<"alpha", "two_tailed", "power", "rho3", "rho2", "omega3", "p",
             "r21", "r22", "r2t3", "g", "n", "J", "K">>
      [] d = "bcra4_2r" ->
           <<"alpha", "two_tailed", "power", "rho4", "rho3", "rho2",
             "omega4", "omega3", "p", "r21", "r22", "r2t3", "r2t4", "g",
             "n", "J", "K", "L">>
      [] d = "bcra4_3f" ->
           <<"alpha", "two_tailed", "power", "rho3", "rho2", "p", "r21",
             "r22", "r23", "g", "n", "J", "K", "L">>
      [] d = "bcra4_3r" ->
           <<"alpha", "two_tailed", "power", "rho4", "rho3", "rho2",
             "omega4", "p", "r21", "r22", "r23", "r2t4", "g", "n", "J", "K",
             "L">>
      [] d = "rd2_1f" ->
           <<"alpha", "two_tailed", "power", "p", "r21", "g", "n", "J",
             "design_effect">>
      [] d = "rd2_1r" ->
           <<"alpha", "two_tailed", "power", "rho2", "omega2", "p", "r21",
             "r2t2", "g", "n", "J", "design_effect">>
      [] d = "rdc_2r" ->
           <<"alpha", "two_tailed", "power", "rho2", "p", "r21", "r22", "g",
             "n", "J", "design_effect">>
      [] d = "rdc_3r" ->
           <<"alpha", "two_tailed", "power", "rho3", "rho2", "p", "r21",
             "r22", "r23", "g", "n", "J", "K", "design_effect">>
      [] d = "rd3_2f" ->
           <<"alpha", "two_tailed", "power", "rho2", "p", "r21", "r22", "g",
             "n", "J", "K", "design_effect">>
      [] d = "its" ->
           <<"alpha", "two_tailed", "power", "rho2", "T", "n", "K", "r22",
             "tf", "g", "q">>

DesignSampleSizeFor(d) ==
    CASE d = "ira" -> "n"
      [] d \in {"bira2_1c", "bira2_1f", "bira2_1r", "cra2_2r", "rd2_1f",
                "rd2_1r", "rdc_2r"} -> "J"
      [] d \in {"bira3_1r", "cra3_3r", "bcra3_2f", "bcra3_2r", "rdc_3r",
                "rd3_2f", "its"} -> "K"
      [] d \in {"bira4_1r", "cra4_4r", "bcra4_2r", "bcra4_3f", "bcra4_3r"} -> "L"

DESIGNS ==
    [d \in {DesignIds[i] : i \in DOMAIN DesignIds} |->
        [number |-> DesignNumber(d),
         params_order |-> DesignParamsOrder(d),
         sample_size_for |-> DesignSampleSizeFor(d),
         has_rho_ts |-> d \in {"rd2_1f", "rd2_1r", "rdc_2r", "rdc_3r", "rd3_2f"},
         is_its |-> d = "its"]]

(***************************************************************************)
(* PARAMS: the parameter metadata.  alpha and power are in units of        *)
(* 1/ProbScale, the other float parameters in hundredths.                  *)
(***************************************************************************)
ParamNames ==
    {"alpha", "two_tailed", "power", "es", "p", "n", "J", "K", "L", "g",
     "r21", "r22", "r23", "r24", "rho2", "rho3", "rho4", "omega2", "omega3",
     "omega4", "r2t2", "r2t3", "r2t4", "design_effect", "T", "tf", "q",
     "rho_ts"}

\* Faulty variant: every minimum is 0.
ParamMeta_MinZero(lo, hi, dflt, is_int) ==
    [min |-> 0, max |-> hi, default |-> dflt, is_int |-> is_int]

ParamMeta(lo, hi, dflt, is_int) ==
    [min |-> lo, max |-> hi, default |-> dflt, is_int |-> is_int]

PARAMS ==
    [name \in ParamNames |->
        CASE name = "alpha" -> ParamMeta(2, 400, 100, FALSE)
          [] name = "two_tailed" -> ParamMeta(1, 2, 2, TRUE)
          [] name = "power" -> ParamMeta(200, 1980, 1600, FALSE)
          [] name = "es" -> ParamMeta(1, 200, 25, FALSE)
          [] name = "p" -> ParamMeta(1, 99, 50, FALSE)
          [] name = "n" -> ParamMeta(1, 100000, 55, TRUE)
          [] name \in {"J", "K"} -> ParamMeta(2, 10000, 20, TRUE)
          [] name = "L" -> ParamMeta(2, 1000, 20, TRUE)
          [] name = "g" -> ParamMeta(0, 50, 1, TRUE)
          [] name = "r21" -> ParamMeta(0, 99, 50, FALSE)
          [] name \in {"r22", "r23", "r24", "r2t2", "r2t3", "r2t4"} ->
               ParamMeta(0, 99, 0, FALSE)
          [] name \in {"rho2", "rho3"} -> ParamMeta(0, 99, 15, FALSE)
          [] name = "rho4" -> ParamMeta(0, 99, 5, FALSE)
          [] name = "omega2" -> ParamMeta(0, 100, 10, FALSE)
          [] name \in {"omega3", "omega4"} -> ParamMeta(0, 100, 50, FALSE)
          [] name = "design_effect" -> ParamMeta(100, 1000, 275, FALSE)
          [] name = "T" -> ParamMeta(2, 50, 5, TRUE)
          [] name = "tf" -> ParamMeta(0, 50, 2, TRUE)
          [] name = "q" -> ParamMeta(1, 100, 2, TRUE)
          [] name = "rho_ts" -> ParamMeta(1, 99, 80, FALSE)]

(***************************************************************************)
(* The values a number_input of the form can hold in this model: a sample  *)
(* of [min, max].  Counts are kept small so that df stays inside TTable.   *)
(***************************************************************************)
FormSample(name) ==
    CASE name = "two_tailed" -> {1, 2}
      [] name = "power" -> {800, 1600}
      [] name = "n" -> {3}
      [] name \in {"J", "K", "L"} -> {4}
      [] name = "T" -> {2}
      [] OTHER -> {PARAMS[name].default}

FormValues(name) ==
    {v \in FormSample(name) : PARAMS[name].min <= v /\ v <= PARAMS[name].max}

(***************************************************************************)
(* Python list operations used on param_order (0-based positions).         *)
(***************************************************************************)
InSeq(s, x) == \E i \in DOMAIN s : s[i] = x

Index(s, x) == (CHOOSE i \in DOMAIN s : s[i] = x /\ \A j \in 1..(i - 1) : s[j] # x) - 1

Remove(s, x) ==
    LET i == Index(s, x) + 1
    IN [j \in 1..(Len(s) - 1) |-> IF j < i THEN s[j] ELSE s[j + 1]]

Insert(s, pos, x) ==
    [j \in 1..(Len(s) + 1) |->
        IF j <= pos THEN s[j] ELSE IF j = pos + 1 THEN x ELSE s[j - 1]]

(***************************************************************************)
(* main(), parameter form: the parameter list shown for a design and mode, *)
(* built on a copy of the design's params_order.                           *)
(***************************************************************************)
Modes == {"MDES (Effect Size)", "Sample Size", "Power"}

\* Faulty variant: Sample Size mode inserts es at the position of power.
SampleSizeOrder_EsBeforePower(order, ss_param) ==
    LET removed == IF InSeq(order, ss_param) THEN Remove(order, ss_param) ELSE order
        insert_idx == IF InSeq(removed, "power") THEN Index(removed, "power") ELSE 0
    IN Insert(removed, insert_idx, "es")

SampleSizeOrder(order, ss_param) ==
    LET removed == IF InSeq(order, ss_param) THEN Remove(order, ss_param) ELSE order
        insert_idx == IF InSeq(removed, "power") THEN Index(removed, "power") + 1 ELSE 0
    IN Insert(removed, insert_idx, "es")

\* Faulty variant: Power mode inserts es but leaves power in the list.
PowerOrder_KeepsPower(order) ==
    IF InSeq(order, "power") THEN Insert(order, Index(order, "power"), "es") ELSE order

PowerOrder(order) ==
    IF InSeq(order, "power")
    THEN Insert(Remove(order, "power"), Index(order, "power"), "es")
    ELSE order

FormParamOrder(design, mode) ==
    LET copy == design.params_order
        after_ss == IF mode = "Sample Size"
                    THEN SampleSizeOrder(copy, design.sample_size_for)
                    ELSE copy
    IN IF mode = "Power" THEN PowerOrder(after_ss) ELSE after_ss

\* Faulty variant: the form edits the table's own list (no copy).
BuildForm_NoCopy(table, design_id, mode) ==
    LET order == FormParamOrder(table[design_id], mode)
    IN [param_order |-> order,
        designs |-> [table EXCEPT ![design_id].params_order = order]]

\* Building the form: param_order starts as design["params_order"].copy(),
\* so the edits for the mode reach the copy and the table stays as it was.
BuildForm(table, design_id, mode) ==
    [param_order |-> FormParamOrder(table[design_id], mode), designs |-> table]

FormKeys(order) == {order[i] : i \in DOMAIN order} \cap ParamNames

FormInputs(order) ==
    LET keys == FormKeys(order)
        vary == {k \in keys : Cardinality(FormValues(k)) > 1}
        pool == UNION {FormValues(k) : k \in vary}
        picks == {f \in [vary -> pool] : \A k \in vary : f[k] \in FormValues(k)}
    IN {[k \in keys |-> IF k \in vary THEN f[k] ELSE CHOOSE v \in FormValues(k) : TRUE] :
          f \in picks}

(***************************************************************************)
(* The pypowerup library (effect_size, power, sample_size) is imported,    *)
(* not defined here: a call is recorded with its function, design id and   *)
(* keyword arguments, its result is the value of that call, and whether it *)
(* raises is left open.                                                    *)
(***************************************************************************)
LibCall(fn, design, kw) == [fn |-> fn, design |-> design, kw |-> kw]

LibValue(c) == [result_of |-> c]

(***************************************************************************)
(* main(), Calculate: the keyword arguments and the calls of each mode.    *)
(***************************************************************************)
pypowerup_params(params_collected) ==
    [k \in (DOMAIN params_collected) \cup {"two_tailed"} |->
        IF k = "two_tailed"
        THEN Get(params_collected, "two_tailed", 2) = 2
        ELSE params_collected[k]]

\* Faulty variant: q is popped from the shared dict instead of a copy.
ItsParams_Aliased(kw) ==
    [no_compare |-> Pop(kw, "q"), w_compare |-> Pop(kw, "q")]

ItsParams(kw) ==
    LET params_no_compare == Pop(kw, "q")
        params_w_compare == kw
    IN [no_compare |-> params_no_compare, w_compare |-> params_w_compare]

ModeFunction(mode) ==
    CASE mode = "MDES (Effect Size)" -> "effect_size"
      [] mode = "Sample Size" -> "sample_size"
      [] OTHER -> "power"

CalculateCalls(mode, design_id, design, kw) ==
    IF design.is_its
    THEN IF mode = "MDES (Effect Size)"
         THEN <<LibCall("effect_size", "its_nocompare", ItsParams(kw).no_compare),
                LibCall("effect_size", "its_wcompare", ItsParams(kw).w_compare)>>
         ELSE <<LibCall(ModeFunction(mode), "its_nocompare", ItsParams(kw).no_compare)>>
    ELSE <<LibCall(ModeFunction(mode), design_id, kw)>>

Upper(s) == IF s = "n" THEN "N" ELSE s

ResultLabel(mode, design) ==
    CASE mode = "MDES (Effect Size)" -> <<"MDES">>
      [] mode = "Sample Size" -> <<Upper(design.sample_size_for), "(Sample Size)">>
      [] OTHER -> <<"Power">>

\* Faulty variant: an absent power is taken as 0.5.
ComputedValues_PowerDefaultHalf(design_id, params) ==
    LET df == get_df_for_design(design_id, params)
        mt == calculate_multiplier(Get(params, "alpha", 100), Get(params, "power", 1000),
                                   df, Get(params, "two_tailed", 2))
    IN [M |-> mt[1], T1 |-> mt[2], T2 |-> mt[3], df |-> df]

ComputedValues(design_id, params) ==
    LET df == get_df_for_design(design_id, params)
        alpha_val == Get(params, "alpha", 100)
        power_val == Get(params, "power", 1600)
        two_tailed_int == Get(params, "two_tailed", 2)
        mt == calculate_multiplier(alpha_val, power_val, df, two_tailed_int)
    IN [M |-> mt[1], T1 |-> mt[2], T2 |-> mt[3], df |-> df]

HasSecondValue(mode, design) == design.is_its /\ mode = "MDES (Effect Size)"

\* Faulty variant: the with-comparison result is taken as the primary value.
ResultStore_Swapped(mode, design_id, design, params_collected, calls) ==
    LET base == [value |-> LibValue(calls[Len(calls)]),
                 label |-> ResultLabel(mode, design),
                 params |-> params_collected,
                 design |-> design_id,
                 mode |-> mode,
                 computed |-> ComputedValues(design_id, params_collected)]
    IN IF HasSecondValue(mode, design)
       THEN Put(base, "value_with_comparison", LibValue(calls[1]))
       ELSE base

\* Faulty variant: the stored computed values are taken at the fallback
\* power instead of the collected one.
ResultStore_StaleComputed(mode, design_id, design, params_collected, calls) ==
    LET label == ResultLabel(mode, design)
        base == [value |-> LibValue(calls[1]),
                 label |-> label,
                 params |-> params_collected,
                 design |-> design_id,
                 mode |-> mode,
                 computed |-> ComputedValues(design_id, Pop(params_collected, "power"))]
    IN IF HasSecondValue(mode, design)
       THEN Put(base, "value_with_comparison", LibValue(calls[2]))
       ELSE base

ResultStore(mode, design_id, design, params_collected, calls) ==
    LET base == [value |-> LibValue(calls[1]),
                 label |-> ResultLabel(mode, design),
                 params |-> params_collected,
                 design |-> design_id,
                 mode |-> mode,
                 computed |-> ComputedValues(design_id, params_collected)]
    IN IF HasSecondValue(mode, design)
       THEN Put(base, "value_with_comparison", LibValue(calls[2]))
       ELSE base

(***************************************************************************)
(* create_export_data (the generated_at timestamp is left out).            *)
(***************************************************************************)
create_export_data(result_data, design_info, computed_values) ==
    LET result == [type |-> Get(result_data, "label", <<>>),
                   value |-> Get(result_data, "value", 0)]
    IN [metadata |-> [design_model |-> design_info.number,
                      calculation_type |-> Get(result_data, "mode", "")],
        result |-> IF "value_with_comparison" \in DOMAIN result_data
                   THEN Put(result, "value_with_comparison",
                            result_data["value_with_comparison"])
                   ELSE result,
        computed_values |-> computed_values,
        parameters |-> Get(result_data, "params", EmptyDict)]

(***************************************************************************)
(* What one run of main() renders.  Optional parts are sets with at most   *)
(* one element.                                                            *)
(***************************************************************************)
EstimatedDesignEffect(design, rho_ts) ==
    IF design.has_rho_ts THEN {estimate_design_effect(rho_ts)} ELSE {}

\* Faulty variant: any stored result enables the controls.
ShowSensitivity_AnyDesign(ss, design_id) == "last_result" \in DOMAIN ss

ShowSensitivity(ss, design_id) ==
    "last_result" \in DOMAIN ss /\ ss["last_result"]["design"] = design_id

\* Faulty variant: the stored mode is not compared.
ShowPrevious_IgnoresMode(ss, design_id, mode) ==
    /\ "last_result" \in DOMAIN ss
    /\ ss["last_result"]["design"] = design_id

ShowPrevious(ss, design_id, mode) ==
    /\ "last_result" \in DOMAIN ss
    /\ ss["last_result"]["design"] = design_id
    /\ ss["last_result"]["mode"] = mode

View(kind, order, est, computed, result, second, export, sens, curve) ==
    [kind |-> kind, form |-> order, est_de |-> est, computed |-> computed,
     result |-> result, second |-> second, export |-> export, sens |-> sens,
     curve |-> curve]

\* The results column of a run in which Calculate was not clicked.
NoCalculateView(ss, design_id, mode, rho_ts, curve) ==
    LET design == designs[design_id]
        order == FormParamOrder(design, mode)
        est == EstimatedDesignEffect(design, rho_ts)
        sens == ShowSensitivity(ss, design_id)
    IN IF ShowPrevious(ss, design_id, mode)
       THEN LET result == ss["last_result"]
                recomputed == ComputedValues(design_id, result["params"])
                computed_vals == Get(result, "computed", recomputed)
            IN View("prev", order, est, {recomputed},
                    {[label |-> result["label"], value |-> result["value"]]}, {},
                    {create_export_data(result, design, computed_vals)}, sens, curve)
       ELSE View("none", order, est, {}, {}, {}, {}, sens, curve)

\* A run in which Calculate was clicked and every library call returned.
CalculatedView(ss, design_id, mode, rho_ts, result_store) ==
    LET design == designs[design_id]
    IN View("new", FormParamOrder(design, mode),
            EstimatedDesignEffect(design, rho_ts),
            {result_store["computed"]},
            {[label |-> result_store["label"], value |-> result_store["value"]]},
            IF HasSecondValue(mode, design)
            THEN {result_store["value_with_comparison"]} ELSE {},
            {create_export_data(result_store, design, result_store["computed"])},
            ShowSensitivity(ss, design_id), {})

\* A run in which Calculate was clicked and a library call raised.
ErrorView(ss, design_id, mode, rho_ts) ==
    LET design == designs[design_id]
    IN View("error", FormParamOrder(design, mode),
            EstimatedDesignEffect(design, rho_ts), {}, {}, {}, {},
            ShowSensitivity(ss, design_id), {})

(***************************************************************************)
(* main(), sensitivity analysis: the two curves over the design's          *)
(* sample-size parameter.                                                  *)
(***************************************************************************)
NumCurvePoints == 40
FallbackEs == 25

\* np.linspace(lo, hi, NumCurvePoints).astype(int)
Linspace(lo, hi) ==
    [i \in 1..NumCurvePoints |-> lo + ((i - 1) * (hi - lo)) \div (NumCurvePoints - 1)]

CurveRanges == {<<10, 200>>, <<5, 44>>}

SeqRange(s) == {s[i] : i \in DOMAIN s}

CurveFailures(x_vals) == {{}, {x_vals[1]}, SeqRange(x_vals)}

\* Faulty variant: the curves pass the table key unchanged.
CurveDesignKey_TableKey(design_id, design) == design_id

CurveDesignKey(design_id, design) == IF design.is_its THEN "its_nocompare" ELSE design_id

\* Faulty variant: the stored integer is converted by truthiness.
TwoTailedBool_Truthy(params) == Put(params, "two_tailed", Get(params, "two_tailed", 2) # 0)

TwoTailedBool(params) == Put(params, "two_tailed", Get(params, "two_tailed", 2) = 2)

\* Faulty variant: es is taken from the stored parameters only.
PowerCurveBase_EsFromParamsOnly(result, design) ==
    LET base_params == TwoTailedBool(result["params"])
        no_power == Pop(base_params, "power")
    IN IF design.is_its THEN Pop(no_power, "q") ELSE no_power

PowerCurveBase(result, design) ==
    LET base_params == TwoTailedBool(result["params"])
        no_power == Pop(base_params, "power")
        with_es == IF "es" \notin DOMAIN no_power
                   THEN Put(no_power, "es",
                            IF result["mode"] = "MDES (Effect Size)"
                            THEN result["value"] ELSE FallbackEs)
                   ELSE no_power
    IN IF design.is_its THEN Pop(with_es, "q") ELSE with_es

MdesCurveBase(result, design) ==
    LET base_params == TwoTailedBool(result["params"])
        no_es == Pop(base_params, "es")
        with_power == IF "power" \notin DOMAIN no_es
                      THEN Put(no_es, "power", 1600) ELSE no_es
    IN IF design.is_its THEN Pop(with_power, "q") ELSE with_power

CurveCalls(fn, design_key, base_params, ss_param, x_vals) ==
    [i \in DOMAIN x_vals |-> LibCall(fn, design_key, Put(base_params, ss_param, x_vals[i]))]

Curve(kind, x_vals, calls, bad) ==
    [kind |-> kind, x_vals |-> x_vals,
     y_vals |-> [i \in DOMAIN x_vals |->
                    IF x_vals[i] \in bad THEN {} ELSE {LibValue(calls[i])}]]

(***************************************************************************)
(* The app: one action per rerun of main().                                *)
(***************************************************************************)
NoHelperCall == [fn |-> "none"]

Init ==
    /\ call = NoHelperCall
    /\ ret = Pending
    /\ calc_mode = "MDES (Effect Size)"
    /\ selected_design = DesignIds[1]
    /\ designs = DESIGNS
    /\ session_state = EmptyDict
    /\ lib_calls = {}
    /\ \E rho_ts \in FormValues("rho_ts") :
          view = NoCalculateView(EmptyDict, DesignIds[1], "MDES (Effect Size)", rho_ts, {})

\* The sidebar radio changes (or any other widget rerun without a button).
SelectMode(m) ==
    /\ calc_mode' = m
    /\ lib_calls' = {}
    /\ \E rho_ts \in FormValues("rho_ts") :
          view' = NoCalculateView(session_state, selected_design, m, rho_ts, {})
    /\ designs' = BuildForm(designs, selected_design, m).designs
    /\ UNCHANGED <<call, ret, selected_design, session_state>>

\* The sidebar design selection changes.
SelectDesign(d) ==
    /\ selected_design' = d
    /\ lib_calls' = {}
    /\ \E rho_ts \in FormValues("rho_ts") :
          view' = NoCalculateView(session_state, d, calc_mode, rho_ts, {})
    /\ designs' = BuildForm(designs, d, calc_mode).designs
    /\ UNCHANGED <<call, ret, calc_mode, session_state>>

\* Calculate is clicked and every library call returns.  (calls,
\* result_store and stored are bound once, as the local variables they are.)
CalculateOk(params_collected, rho_ts) ==
    LET design == designs[selected_design]
    IN \E calls \in {CalculateCalls(calc_mode, selected_design, design,
                                    pypowerup_params(params_collected))} :
       \E result_store \in {ResultStore(calc_mode, selected_design, design,
                                        params_collected, calls)} :
       \E stored \in {Put(session_state, "last_result", result_store)} :
          /\ lib_calls' = SeqRange(calls)
          /\ session_state' = stored
          /\ view' = CalculatedView(stored, selected_design, calc_mode, rho_ts, result_store)
          /\ designs' = BuildForm(designs, selected_design, calc_mode).designs
          /\ UNCHANGED <<call, ret, calc_mode, selected_design>>

\* Faulty variant: when the second call raises, the value of the first call
\* is stored as the last result before the error is reported.
CalculateRaises_StoresPartial(params_collected, rho_ts, fail_at) ==
    LET design == designs[selected_design]
        calls == CalculateCalls(calc_mode, selected_design, design,
                                pypowerup_params(params_collected))
    IN /\ fail_at \in DOMAIN calls
       /\ lib_calls' = {calls[i] : i \in 1..fail_at}
       /\ view' = ErrorView(session_state, selected_design, calc_mode, rho_ts)
       /\ session_state' =
             IF fail_at = 2
             THEN Put(session_state, "last_result",
                      Pop(ResultStore(calc_mode, selected_design, design,
                                      params_collected, calls),
                          "value_with_comparison"))
             ELSE session_state
       /\ designs' = BuildForm(designs, selected_design, calc_mode).designs
       /\ UNCHANGED <<call, ret, calc_mode, selected_design>>

\* Calculate is clicked and the library call number fail_at raises: the
\* except branch reports the error and nothing is stored.
CalculateRaises(params_collected, rho_ts, fail_at) ==
    LET design == designs[selected_design]
        calls == CalculateCalls(calc_mode, selected_design, design,
                                pypowerup_params(params_collected))
    IN /\ fail_at \in DOMAIN calls
       /\ lib_calls' = {calls[i] : i \in 1..fail_at}
       /\ view' = ErrorView(session_state, selected_design, calc_mode, rho_ts)
       /\ designs' = BuildForm(designs, selected_design, calc_mode).designs
       /\ UNCHANGED <<call, ret, calc_mode, selected_design, session_state>>

Calculate ==
    \E params_collected \in FormInputs(FormParamOrder(designs[selected_design], calc_mode)),
       rho_ts \in FormValues("rho_ts") :
        \/ CalculateOk(params_collected, rho_ts)
        \/ \E fail_at \in 1..2 : CalculateRaises(params_collected, rho_ts, fail_at)

\* "Generate Power Curve" is clicked (the button exists only when the
\* sensitivity controls were rendered).
GeneratePowerCurve ==
    /\ view.sens
    /\ ShowSensitivity(session_state, selected_design)
    /\ \E range \in CurveRanges, rho_ts \in FormValues("rho_ts") :
         LET design == designs[selected_design]
             result == session_state["last_result"]
         IN \E x_vals \in {Linspace(range[1], range[2])} :
            \E calls \in {CurveCalls("power", CurveDesignKey(selected_design, design),
                                      PowerCurveBase(result, design),
                                      design.sample_size_for, x_vals)} :
            \E bad \in CurveFailures(x_vals) :
              /\ lib_calls' = SeqRange(calls)
              /\ view' = NoCalculateView(session_state, selected_design, calc_mode, rho_ts,
                                         {Curve("power", x_vals, calls, bad)})
    /\ designs' = BuildForm(designs, selected_design, calc_mode).designs
    /\ UNCHANGED <<call, ret, calc_mode, selected_design, session_state>>

\* "Generate MDES Curve" is clicked.
GenerateMdesCurve ==
    /\ view.sens
    /\ ShowSensitivity(session_state, selected_design)
    /\ \E range \in CurveRanges, rho_ts \in FormValues("rho_ts") :
         LET design == designs[selected_design]
             result == session_state["last_result"]
         IN \E x_vals \in {Linspace(range[1], range[2])} :
            \E calls \in {CurveCalls("effect_size", CurveDesignKey(selected_design, design),
                                      MdesCurveBase(result, design),
                                      design.sample_size_for, x_vals)} :
            \E bad \in CurveFailures(x_vals) :
              /\ lib_calls' = SeqRange(calls)
              /\ view' = NoCalculateView(session_state, selected_design, calc_mode, rho_ts,
                                         {Curve("effect_size", x_vals, calls, bad)})
    /\ designs' = BuildForm(designs, selected_design, calc_mode).designs
    /\ UNCHANGED <<call, ret, calc_mode, selected_design, session_state>>

Next ==
    \/ \E m \in Modes : SelectMode(m)
    \/ \E d \in DOMAIN designs : SelectDesign(d)
    \/ Calculate
    \/ GeneratePowerCurve
    \/ GenerateMdesCurve

Spec == Init /\ [][Next]_vars

(***************************************************************************)
(* The helper functions on their own: an initial state holds one call with *)
(* its arguments, and the action of that function evaluates it.            *)
(***************************************************************************)
AlphaInputs == {0, 2, 100, 200, 400}
PowerInputs == {200, 800, 1000, 1600, 1980, 2000}
TailsInputs == 0..3

MultiplierCalls ==
    {[fn |-> "calculate_multiplier", alpha |-> a, power |-> p, df |-> d, two_tailed |-> t] :
        a \in AlphaInputs, p \in PowerInputs, d \in 0..MaxDf, t \in TailsInputs}

DfKeys == {"n", "J", "K", "L", "g", "T"}

\* Each key is absent, low or high: counts are 1 or MaxCount, g is 0 or MaxG.
DfParamSets ==
    UNION {{[k \in S |-> IF k = "g"
                         THEN (IF k \in H THEN MaxG ELSE 0)
                         ELSE (IF k \in H THEN MaxCount ELSE 1)] : H \in SUBSET S} :
             S \in SUBSET DfKeys}

DfDesignInputs == DfDesigns \cup {"its_nocompare", "its_wcompare", "unknown"}

DfCalls ==
    {[fn |-> "get_df_for_design", design_id |-> d, params |-> ps] :
        d \in DfDesignInputs, ps \in DfParamSets}

DesignEffectCalls ==
    {[fn |-> "estimate_design_effect", rho_ts |-> r] : r \in (0 - MaxRho)..MaxRho}

InitFn ==
    /\ call \in MultiplierCalls \cup DfCalls \cup DesignEffectCalls
    /\ ret = Pending
    /\ calc_mode = "MDES (Effect Size)"
    /\ selected_design = DesignIds[1]
    /\ designs = DESIGNS
    /\ session_state = EmptyDict
    /\ lib_calls = {}
    /\ view = View("none", <<>>, {}, {}, {}, {}, {}, FALSE, {})

AppUnchanged == UNCHANGED <<calc_mode, selected_design, designs, session_state, lib_calls, view>>

CallMultiplier ==
    /\ call.fn = "calculate_multiplier"
    /\ ret = Pending
    /\ ret' = Returned(calculate_multiplier(call.alpha, call.power, call.df, call.two_tailed))
    /\ UNCHANGED call
    /\ AppUnchanged

CallGetDf ==
    /\ call.fn = "get_df_for_design"
    /\ ret = Pending
    /\ ret' = Returned(get_df_for_design(call.design_id, call.params))
    /\ UNCHANGED call
    /\ AppUnchanged

CallDesignEffect ==
    /\ call.fn = "estimate_design_effect"
    /\ ret = Pending
    /\ ret' = estimate_design_effect(call.rho_ts)
    /\ UNCHANGED call
    /\ AppUnchanged

NextFn == CallMultiplier \/ CallGetDf \/ CallDesignEffect

SpecFn == InitFn /\ [][NextFn]_vars

(***************************************************************************)
(* The formula library behind effect_size, power and sample_size.  Its     *)
(* code is not among the source files; it is modelled from the             *)
(* specification (sections 4.1 to 4.4 and 7) for the two designs whose     *)
(* formula is pinned down there and in the parity tests: "ira"             *)
(* (delta = M * sqrt((1 - R2_1) / (P(1 - P) n)), df = n - g - 2) and       *)
(* "cra2_2r" (between- and within-cluster terms over P(1 - P) J and        *)
(* P(1 - P) J n, df = J - g - 2).  Proportions are in hundredths, the      *)
(* multiplier is rounded to hundredths (the tolerance of the parity        *)
(* tests), and the variance term is an exact fraction.                     *)
(***************************************************************************)
MaxLibCount == 40

LibDesigns == {"ira", "cra2_2r"}

RECURSIVE GCD(_, _)
GCD(a, b) == IF b = 0 THEN a ELSE GCD(b, a % b)

Frac(num, den) ==
    LET d == GCD(num, den) IN [num |-> num \div d, den |-> den \div d]

\* floor(sqrt(x)) for 0 <= x, by bisection between lo and hi.
RECURSIVE SqrtSearch(_, _, _)
SqrtSearch(x, lo, hi) ==
    IF hi - lo <= 1 THEN lo
    ELSE LET mid == (lo + hi) \div 2
         IN IF mid * mid <= x THEN SqrtSearch(x, mid, hi) ELSE SqrtSearch(x, lo, mid)

ISqrt(x) == SqrtSearch(x, 0, 46341)

\* The library takes two_tailed as a Boolean.
LibTails(kw) == IF Get(kw, "two_tailed", TRUE) THEN 2 ELSE 1

\* M of section 4.1 for the keyword arguments, with the given power, in
\* hundredths.
LibMultiplier(design, kw, pw) ==
    LET m == calculate_multiplier(Get(kw, "alpha", 100), pw,
                                  get_df_for_design(design, kw), LibTails(kw))[1]
    IN IF IsFinite(m) THEN Fin((m.v + 5) \div 10) ELSE m

\* Faulty variant: the level-1 R2 is left out of the variance term.
VarianceTerm_NoCovariate(design, kw) ==
    LET p == Get(kw, "p", 50)
        pq == p * (100 - p)
    IN IF design = "ira"
       THEN Frac(100 * 100, pq * kw["n"])
       ELSE Frac(kw["rho2"] * (100 - Get(kw, "r22", 0)) * kw["n"]
                    + (100 - kw["rho2"]) * 100,
                 pq * kw["J"] * kw["n"])

\* design_factor * (1 - R2 contribution) / (P(1 - P) * effective_n)
VarianceTerm(design, kw) ==
    LET p == Get(kw, "p", 50)
        r21 == Get(kw, "r21", 0)
        pq == p * (100 - p)
    IN IF design = "ira"
       THEN Frac(100 * (100 - r21), pq * kw["n"])
       ELSE Frac(kw["rho2"] * (100 - Get(kw, "r22", 0)) * kw["n"]
                    + (100 - kw["rho2"]) * (100 - r21),
                 pq * kw["J"] * kw["n"])

\* The MDES m * sqrt(num / den), kept as its three parts.
mdes_formula(design, kw, pw) ==
    LET v == VarianceTerm(design, kw)
    IN [m |-> LibMultiplier(design, kw, pw), num |-> v.num, den |-> v.den]

\* mdes <= es, for an effect size es >= 0 in hundredths.
MdesLeqEs(d, es) ==
    CASE d.m.k = "fin" -> d.m.v <= 0 \/ d.m.v * d.m.v * d.num <= es * es * d.den
      [] d.m.k = "-inf" -> TRUE
      [] OTHER -> FALSE

\* a < b for two MDES values.
MdesLess(a, b) ==
    LET x == Frac(a.num * b.den, b.num * a.den)
        sq(m) == IF m >= 0 THEN m * m ELSE 0 - m * m
    IN sq(a.m.v) * x.num < sq(b.m.v) * x.den

ValidCounts(design, kw) ==
    \A k \in {"n", "J"} : k \in DOMAIN kw => kw[k] >= PARAMS[k].min

effect_size(design, kw) ==
    LET d == mdes_formula(design, kw, Get(kw, "power", 1600))
    IN CASE ~ValidCounts(design, kw) -> Raised("InvalidRange")
         [] ~IsFinite(d.m) -> Raised("NonFinite")
         [] OTHER -> Returned(d)

(***************************************************************************)
(* power: the root pi of mdes_formula(pi) = es over the bracket (alpha, 1) *)
(* (section 4.4).  The quantile function is known at the probabilities of  *)
(* PiGrid; the root finder bisects to the grid cell holding the sign       *)
(* change and places the root inside the cell by interpolation.  A power   *)
(* is a record [cell, num, den]: the probability                           *)
(* PiGrid[cell] + (PiGrid[cell + 1] - PiGrid[cell]) * num / den.           *)
(***************************************************************************)
PiGrid ==
    [i \in 1..(2 * Len(UpperProbs)) |->
        CASE i < Len(UpperProbs) -> ProbScale - UpperProbs[Len(UpperProbs) + 1 - i]
          [] i < 2 * Len(UpperProbs) -> UpperProbs[i + 1 - Len(UpperProbs)]
          [] OTHER -> ProbScale]

GridIndex(p) == CHOOSE i \in DOMAIN PiGrid : PiGrid[i] = p

\* es / sqrt(variance term): the multiplier that gives an MDES of es.
TargetMultiplier(design, kw) ==
    LET v == VarianceTerm(design, kw)
    IN ISqrt((kw["es"] * kw["es"] * v.den) \div v.num)

RECURSIVE BisectCell(_, _, _)
BisectCell(below, lo, hi) ==
    IF hi - lo <= 1 THEN lo
    ELSE LET mid == (lo + hi) \div 2
         IN IF below[mid] THEN BisectCell(below, mid, hi) ELSE BisectCell(below, lo, mid)

\* Faulty variant: the offset inside a cell is measured from its upper end.
CellOffset_FromUpperEnd(target, m_lo, m_hi, t1) ==
    IF IsFinite(m_hi)
    THEN [num |-> m_hi.v - target, den |-> m_hi.v - m_lo.v]
    ELSE [num |-> m_lo.v - t1.v, den |-> target - t1.v]

\* Faulty variant: a root beyond the last tabulated probability is reported
\* as the upper end of the bracket.
CellOffset_Saturating(target, m_lo, m_hi, t1) ==
    IF IsFinite(m_hi)
    THEN [num |-> target - m_lo.v, den |-> m_hi.v - m_lo.v]
    ELSE [num |-> 1, den |-> 1]

\* Where in its cell the root lies: linear between two tabulated
\* multipliers; in the last cell, whose upper multiplier is infinite, the
\* upper-tail probability falls as 1 / T2.
CellOffset(target, m_lo, m_hi, t1) ==
    IF IsFinite(m_hi)
    THEN [num |-> target - m_lo.v, den |-> m_hi.v - m_lo.v]
    ELSE [num |-> target - m_lo.v, den |-> target - t1.v]

power(design, kw) ==
    LET alpha == Get(kw, "alpha", 100)
        target == TargetMultiplier(design, kw)
        lo == GridIndex(alpha)
        hi == Len(PiGrid)
        m == [i \in lo..hi |-> LibMultiplier(design, kw, PiGrid[i])]
        below == [i \in lo..hi |-> m[i].k = "-inf" \/ (m[i].k = "fin" /\ m[i].v < target)]
        t1 == calculate_multiplier(alpha, PiGrid[hi - 1],
                                   get_df_for_design(design, kw), LibTails(kw))[2]
    IN CASE ~ValidCounts(design, kw) -> Raised("InvalidRange")
         [] ~below[lo] \/ below[hi] -> Raised("NonConvergence")
         [] OTHER ->
            LET cell == BisectCell(below, lo, hi)
                off == CellOffset(target, m[cell], m[cell + 1],
                                  Fin((t1.v + 5) \div 10))
            IN Returned([cell |-> cell, num |-> off.num, den |-> off.den])

\* a < b for two powers.
PowerLess(a, b) ==
    \/ a.cell < b.cell
    \/ a.cell = b.cell /\ a.num * b.den < b.num * a.den

(***************************************************************************)
(* sample_size: the design's sample-size parameter is found by bisection   *)
(* between the parameter's minimum and MaxLibCount, the end of the         *)
(* bracket, and rounded up: the upper end of the unit interval that holds  *)
(* the root (section 4.4).                                                 *)
(***************************************************************************)
\* Faulty variant: the root is rounded down.
BisectCount_RoundsDown(meets, lo, hi) == BisectCell([i \in DOMAIN meets |-> ~meets[i]], lo, hi)

\* Faulty variant: the bisection keeps the half without the sign change.
BisectCount_WrongHalf(meets, lo, hi) == BisectCell(meets, lo, hi) + 1

BisectCount(meets, lo, hi) == BisectCell([i \in DOMAIN meets |-> ~meets[i]], lo, hi) + 1

sample_size(design, kw) ==
    LET ss_param == DESIGNS[design].sample_size_for
        lo == PARAMS[ss_param].min
        hi == MaxLibCount
        meets == [N \in lo..hi |->
                     MdesLeqEs(mdes_formula(design, Put(kw, ss_param, N),
                                            Get(kw, "power", 1600)),
                               kw["es"])]
    IN CASE ~ValidCounts(design, kw) -> Raised("InvalidRange")
         [] meets[lo] \/ ~meets[hi] -> Raised("NonConvergence")
         [] OTHER -> Returned(BisectCount(meets, lo, hi))

(***************************************************************************)
(* The library functions on their own: an initial state holds one call,    *)
(* the step evaluates it.                                                  *)
(***************************************************************************)
LibAlphas == {100, 200, 400}

LibPowers == {200, 800, 1600, 1800}

LibEs == {10, 20, 25, 50, 100, 195, 200}

LibN == {4, 9, 16, 36}

LibJ == {6, 12, 30}

\* Keyword arguments shared by the three functions, without es, power and
\* the design's sample-size parameter.
LibBaseKw(design) ==
    IF design = "ira"
    THEN {[alpha |-> a, two_tailed |-> t, p |-> p, r21 |-> r, g |-> g] :
            a \in LibAlphas, t \in BOOLEAN, p \in {20, 50}, r \in {0, 50}, g \in 0..1}
    ELSE {[alpha |-> a, two_tailed |-> t, p |-> p, r21 |-> r, g |-> g,
           rho2 |-> 20, r22 |-> 0, n |-> 4] :
            a \in LibAlphas, t \in BOOLEAN, p \in {20, 50}, r \in {0, 50}, g \in 0..1}

LibCounts(design) == IF design = "ira" THEN LibN ELSE LibJ

LibSsParam(design) == DESIGNS[design].sample_size_for

EffectSizeCalls ==
    UNION {{LibCall("effect_size", d, Put(Put(kw, "power", pw), LibSsParam(d), c)) :
              kw \in LibBaseKw(d), pw \in LibPowers, c \in LibCounts(d)} :
           d \in LibDesigns}

PowerCalls ==
    UNION {{LibCall("power", d, Put(Put(kw, "es", es), LibSsParam(d), c)) :
              kw \in LibBaseKw(d), es \in LibEs, c \in LibCounts(d)} :
           d \in LibDesigns}

SampleSizeCalls ==
    UNION {{LibCall("sample_size", d, Put(Put(kw, "es", es), "power", pw)) :
              kw \in LibBaseKw(d), es \in LibEs, pw \in LibPowers} :
           d \in LibDesigns}

InitLib ==
    /\ call \in EffectSizeCalls \cup PowerCalls \cup SampleSizeCalls
    /\ ret = Pending
    /\ calc_mode = "MDES (Effect Size)"
    /\ selected_design = DesignIds[1]
    /\ designs = DESIGNS
    /\ session_state = EmptyDict
    /\ lib_calls = {}
    /\ view = View("none", <<>>, {}, {}, {}, {}, {}, FALSE, {})

CallEffectSize ==
    /\ call.fn = "effect_size"
    /\ ret = Pending
    /\ ret' = effect_size(call.design, call.kw)
    /\ UNCHANGED call
    /\ AppUnchanged

CallPower ==
    /\ call.fn = "power"
    /\ ret = Pending
    /\ ret' = power(call.design, call.kw)
    /\ UNCHANGED call
    /\ AppUnchanged

CallSampleSize ==
    /\ call.fn = "sample_size"
    /\ ret = Pending
    /\ ret' = sample_size(call.design, call.kw)
    /\ UNCHANGED call
    /\ AppUnchanged

NextLib == CallEffectSize \/ CallPower \/ CallSampleSize

SpecLib == InitLib /\ [][NextLib]_vars

(***************************************************************************)
(* Properties of the helper functions (checked under SpecFn).              *)
(***************************************************************************)
MultiplierDone == call.fn = "calculate_multiplier" /\ ret.st # "pending"

GetDfDone == call.fn = "get_df_for_design" /\ ret.st # "pending"

DesignEffectDone == call.fn = "estimate_design_effect" /\ ret.st # "pending"

XIsNegative(a) == a.k = "-inf" \/ (a.k = "fin" /\ a.v < 0)

\* C1: calculate_multiplier halves alpha exactly when tails = 2, returns
\* T1 = quantile(1 - effective alpha, df) and T2 = |quantile(1 - power, df)|,
\* and T2 is never negative.
C1_MultiplierQuantiles ==
    MultiplierDone =>
        LET halved == call.alpha \div 2
            q2 == TPpf(ProbScale - call.power, call.df)
        IN /\ ret.st = "returned"
           /\ (call.two_tailed = 2 => ret.val[2] = TPpf(ProbScale - halved, call.df))
           /\ (call.two_tailed # 2 => ret.val[2] = TPpf(ProbScale - call.alpha, call.df))
           /\ ret.val[3] = (IF XIsNegative(q2) THEN XNeg(q2) ELSE q2)
           /\ ~XIsNegative(ret.val[3])

\* C1 witness: a two-tailed call whose power quantile is negative, so that
\* both the halving and the absolute value acted.
C1_Witness ==
    /\ MultiplierDone
    /\ call.two_tailed = 2
    /\ call.alpha = 100
    /\ call.df >= 1
    /\ XIsNegative(TPpf(ProbScale - call.power, call.df))
    /\ ret.val[2] = TPpf(1950, call.df)

\* C2: the returned triple is ordered (M, T1, T2), with M = T1 + T2 when
\* power >= 0.5 and M = T1 - T2 when power < 0.5.
C2_MultiplierSum ==
    MultiplierDone =>
        /\ ret.st = "returned"
        /\ Len(ret.val) = 3
        /\ ret.val[2] = TPpf(ProbScale - (IF call.two_tailed = 2 THEN call.alpha \div 2
                                          ELSE call.alpha), call.df)
        /\ ret.val[3] = XAbs(TPpf(ProbScale - call.power, call.df))
        /\ (2 * call.power >= ProbScale => ret.val[1] = XAdd(ret.val[2], ret.val[3]))
        /\ (2 * call.power < ProbScale => ret.val[1] = XSub(ret.val[2], ret.val[3]))

\* C2 witness: a call with power below 0.5 and a finite, non-zero T2, where
\* the difference was returned.
C2_Witness ==
    /\ MultiplierDone
    /\ 2 * call.power < ProbScale
    /\ IsFinite(ret.val[3]) /\ ret.val[3].v > 0
    /\ IsFinite(ret.val[2])
    /\ ret.val[1] = Fin(ret.val[2].v - ret.val[3].v)

\* The design's formula of the documented table, on the counts used.
TableDf(d, n, J, K, L, g, T) ==
    CASE d = "ira" -> n - g - 2
      [] d = "bira2_1c" -> J * (n - 1) - g - 1
      [] d \in {"bira2_1f", "rd2_1f"} -> J * (n - 2) - g
      [] d \in {"bira2_1r", "rd2_1r"} -> J - g - 1
      [] d \in {"bira3_1r", "bcra3_2r"} -> K - g - 1
      [] d \in {"bira4_1r", "bcra4_2r", "bcra4_3r"} -> L - g - 1
      [] d \in {"cra2_2r", "rdc_2r"} -> J - g - 2
      [] d \in {"cra3_3r", "rdc_3r"} -> K - g - 2
      [] d = "cra4_4r" -> L - g - 2
      [] d = "bcra3_2f" -> K * (J - 2) - g
      [] d = "bcra4_3f" -> L * (K - 2) - g
      [] d = "rd3_2f" -> K * (J - 1) - g
      [] d = "its" -> K * T - g - 1

TableIds ==
    {"ira", "bira2_1c", "bira2_1f", "bira2_1r", "bira3_1r", "bira4_1r",
     "cra2_2r", "cra3_3r", "cra4_4r", "bcra3_2f", "bcra3_2r", "bcra4_2r",
     "bcra4_3f", "bcra4_3r", "rd2_1f", "rd2_1r", "rdc_2r", "rdc_3r",
     "rd3_2f", "its"}

Supplied(k, fallback) == IF k \in DOMAIN call.params THEN call.params[k] ELSE fallback

\* The raw formula value of the call: supplied counts, documented fallbacks.
RawDf ==
    TableDf(call.design_id, Supplied("n", 30), Supplied("J", 10), Supplied("K", 10),
            Supplied("L", 10), Supplied("g", 0), Supplied("T", 5))

\* C3: for a design of the table and a parameter set whose raw formula
\* value is >= 1, get_df_for_design returns exactly that formula value.
C3_DfTable ==
    (GetDfDone /\ call.design_id \in TableIds) =>
        (RawDf >= 1 => ret = Returned(RawDf))

\* C3 witness: a multiplicative formula evaluated unclamped on supplied
\* counts.
C3_Witness ==
    /\ GetDfDone
    /\ call.design_id = "rd3_2f"
    /\ {"J", "K", "g"} \subseteq DOMAIN call.params
    /\ call.params["J"] = MaxCount /\ call.params["K"] = MaxCount
    /\ ret = Returned(MaxCount * (MaxCount - 1) - call.params["g"])
    /\ ret.val > 1

\* C4: for every design id and integer parameter set get_df_for_design
\* returns a value >= 1; a non-positive raw formula value is clamped to 1.
C4_DfClamped ==
    GetDfDone =>
        /\ ret.st = "returned"
        /\ ret.val >= 1
        /\ (call.design_id \in TableIds /\ RawDf < 1 => ret.val = 1)

\* C4 witness: covariates exceed the unit count, the raw value is negative
\* and 1 is returned.
C4_Witness ==
    /\ GetDfDone
    /\ call.design_id = "cra2_2r"
    /\ {"J", "g"} \subseteq DOMAIN call.params
    /\ call.params["J"] < call.params["g"]
    /\ RawDf < 0
    /\ ret = Returned(1)

\* C5: get_df_for_design never fails on a partial parameter set: an absent
\* n, J, K, L, T or g is replaced by its fallback (30, 10, 10, 10, 5, 0) and a
\* supplied value is never overridden.
C5_DfFallbacks ==
    (GetDfDone /\ call.design_id \in TableIds) =>
        /\ ret.st = "returned"
        /\ ret.val = (IF RawDf >= 1 THEN RawDf ELSE 1)

\* C5 witness: K is absent and T is supplied for the ITS design, so the
\* result uses the fallback K = 10 with the supplied T.
C5_Witness ==
    /\ GetDfDone
    /\ call.design_id = "its"
    /\ "K" \notin DOMAIN call.params
    /\ "T" \in DOMAIN call.params /\ call.params["T"] = MaxCount
    /\ "g" \notin DOMAIN call.params
    /\ ret = Returned(10 * MaxCount - 1)

\* C6 as stated: estimate_design_effect returns 1 / (1 - rho_ts^2) for
\* rho_ts < 1 and returns +infinity, without raising, for rho_ts >= 1.  It
\* returns a value for every rho_ts; where 1 - rho_ts^2 is zero the value of
\* the quotient is the float +infinity.
C6_DesignEffectAsStated ==
    DesignEffectDone =>
        LET one_minus_sq == RhoScale * RhoScale - call.rho_ts * call.rho_ts
        IN /\ ret.st = "returned"
           /\ (call.rho_ts >= RhoScale => ret.val = PosInf)
           /\ (call.rho_ts < RhoScale /\ one_minus_sq = 0 => ret.val = PosInf)
           /\ (call.rho_ts < RhoScale /\ one_minus_sq # 0 =>
                 /\ ret.val.k = "rat"
                 /\ ret.val.den > 0
                 /\ ret.val.num * one_minus_sq = ret.val.den * RhoScale * RhoScale)

(***************************************************************************)
(* Properties of the app (checked under Spec).                             *)
(***************************************************************************)
HasResult == "last_result" \in DOMAIN session_state

LastResult == session_state["last_result"]

LibraryIds ==
    {"ira", "bira2_1c", "bira2_1f", "bira2_1r", "bira3_1r", "bira4_1r",
     "cra2_2r", "cra3_3r", "cra4_4r", "bcra3_2f", "bcra3_2r", "bcra4_2r",
     "bcra4_3f", "bcra4_3r", "rd2_1f", "rd2_1r", "rdc_2r", "rdc_3r",
     "rd3_2f", "its_nocompare", "its_wcompare"}

\* C7: in every run (Calculate and both curves) power() is never given
\* power and always given es, sample_size() is never given the design's
\* sample_size_for count and always given es, and effect_size() is never
\* given es and always given power.
C7_KeywordContract ==
    \A c \in lib_calls :
        /\ c.fn = "power" => ("power" \notin DOMAIN c.kw /\ "es" \in DOMAIN c.kw)
        /\ c.fn = "sample_size" =>
             (DesignSampleSizeFor(selected_design) \notin DOMAIN c.kw /\ "es" \in DOMAIN c.kw)
        /\ c.fn = "effect_size" => ("es" \notin DOMAIN c.kw /\ "power" \in DOMAIN c.kw)

\* C7 witness: a power curve generated from a result computed in Sample
\* Size mode (whose parameters hold es and power but no target count).
C7_Witness ==
    /\ HasResult
    /\ LastResult["mode"] = "Sample Size"
    /\ "power" \in DOMAIN LastResult["params"]
    /\ view.curve # {}
    /\ \E c \in lib_calls : c.fn = "power" /\ "es" \in DOMAIN c.kw

\* C8: every design id passed to the library is one of its 21 ids: a
\* non-ITS table key is passed unchanged and the key "its" is replaced by
\* "its_nocompare" or "its_wcompare" at every call site.
C8_LibraryDesignIds ==
    \A c \in lib_calls :
        /\ c.design \in LibraryIds
        /\ selected_design # "its" => c.design = selected_design
        /\ selected_design = "its" => c.design \in {"its_nocompare", "its_wcompare"}

\* C8 witness: an MDES curve generated for the ITS design.
C8_Witness ==
    /\ selected_design = "its"
    /\ view.curve # {}
    /\ \E c \in lib_calls : c.fn = "effect_size" /\ c.design = "its_nocompare"

\* C9: q reaches the library only in calls for "its_wcompare"; a call for
\* "its_nocompare" is made without q, and removing q for it removes q
\* neither from the with-comparison call nor from the stored parameters.
C9_QOnlyWithComparison ==
    /\ \A c \in lib_calls :
          /\ "q" \in DOMAIN c.kw => c.design = "its_wcompare"
          /\ c.design = "its_wcompare" => "q" \in DOMAIN c.kw
          /\ c.design = "its_nocompare" => "q" \notin DOMAIN c.kw
    /\ (HasResult /\ LastResult["design"] = "its") => "q" \in DOMAIN LastResult["params"]

\* C9 witness: an ITS MDES calculation made both calls, the first without
\* q and the second with it, and stored q.
C9_Witness ==
    /\ view.kind = "new"
    /\ selected_design = "its"
    /\ \E c \in lib_calls : c.design = "its_nocompare" /\ "q" \notin DOMAIN c.kw
    /\ \E c \in lib_calls : c.design = "its_wcompare" /\ "q" \in DOMAIN c.kw
    /\ "q" \in DOMAIN LastResult["params"]

IsNoCompareMdes(v) == v.result_of.fn = "effect_size" /\ v.result_of.design = "its_nocompare"

IsWithCompareMdes(v) == v.result_of.fn = "effect_size" /\ v.result_of.design = "its_wcompare"

\* C10: a stored or exported result carries value_with_comparison if and
\* only if it was produced for the ITS design in MDES mode, and then the
\* primary value is the no-comparison MDES and the second value the
\* with-comparison MDES.
C10_SecondValue ==
    /\ HasResult =>
          /\ "value_with_comparison" \in DOMAIN LastResult
               <=> (LastResult["design"] = "its" /\ LastResult["mode"] = "MDES (Effect Size)")
          /\ "value_with_comparison" \in DOMAIN LastResult =>
               /\ IsNoCompareMdes(LastResult["value"])
               /\ IsWithCompareMdes(LastResult["value_with_comparison"])
    /\ \A e \in view.export :
          /\ "value_with_comparison" \in DOMAIN e.result
               <=> (e.metadata.design_model = "6.0"
                    /\ e.metadata.calculation_type = "MDES (Effect Size)")
          /\ "value_with_comparison" \in DOMAIN e.result =>
               /\ IsNoCompareMdes(e.result["value"])
               /\ IsWithCompareMdes(e.result["value_with_comparison"])

\* C10 witness: a stored ITS MDES result is shown again in a later run and
\* exported with its second value.
C10_Witness ==
    /\ view.kind = "prev"
    /\ HasResult
    /\ "value_with_comparison" \in DOMAIN LastResult
    /\ \E e \in view.export : "value_with_comparison" \in DOMAIN e.result

(***************************************************************************)
(* C11: no partial result is kept.  A run in which a library call of       *)
(* Calculate raised (the second call of an ITS MDES calculation included)  *)
(* reports the error, shows no result, no computed values and no export,   *)
(* and leaves the session state exactly as it was; the session state       *)
(* changes only in a run in which Calculate was clicked and every library  *)
(* call returned, never on a selection change or a curve generation.       *)
(***************************************************************************)
C11_NoPartialResult ==
    [][/\ (view'.kind = "error" =>
              /\ session_state' = session_state
              /\ view'.result = {} /\ view'.second = {}
              /\ view'.computed = {} /\ view'.export = {})
       /\ (session_state' # session_state =>
              /\ view'.kind = "new"
              /\ view'.result = {[label |-> session_state'["last_result"]["label"],
                                  value |-> session_state'["last_result"]["value"]]}
              /\ \A c \in lib_calls' :
                    LibValue(c) \in {session_state'["last_result"]["value"],
                                     Get(session_state'["last_result"],
                                         "value_with_comparison",
                                         session_state'["last_result"]["value"])})
       /\ (view'.kind \in {"none", "prev"} => session_state' = session_state)]_vars

\* An ITS MDES calculation whose second call raised while an earlier result
\* was in the session state.
C11_Witness ==
    /\ view.kind = "error"
    /\ HasResult
    /\ \E c \in lib_calls : c.design = "its_nocompare"
    /\ \E c \in lib_calls : c.design = "its_wcompare"

(***************************************************************************)
(* Properties of the formula library (checked under SpecLib).              *)
(***************************************************************************)
PowerDone == call.fn = "power" /\ ret.st = "returned"

SampleSizeDone == call.fn = "sample_size" /\ ret.st = "returned"

EffectSizeDone == call.fn = "effect_size" /\ ret.st = "returned"

SmallerEs == {a \in LibEs : a < call.kw["es"]}

PowerAt(a) == power(call.design, Put(call.kw, "es", a))

SampleSizeAt(a) == sample_size(call.design, Put(call.kw, "es", a))

(***************************************************************************)
(* C13: with every other argument fixed, power is strictly increasing in   *)
(* the effect size: the power returned for a smaller es is strictly below  *)
(* the power returned for a larger one.                                    *)
(***************************************************************************)
C13_PowerIncreasing ==
    PowerDone =>
        \A a \in SmallerEs :
            PowerAt(a).st = "returned" => PowerLess(PowerAt(a).val, ret.val)

\* Two effect sizes whose roots lie in the same cell of the quantile grid.
C13_Witness ==
    /\ PowerDone
    /\ \E a \in SmallerEs :
          /\ PowerAt(a).st = "returned"
          /\ PowerAt(a).val.cell = ret.val.cell

(***************************************************************************)
(* C14, as stated: the required sample size is strictly decreasing in the  *)
(* target effect size, sample_size(es=a) > sample_size(es=b) for a < b.    *)
(***************************************************************************)
C14_StrictlyDecreasing ==
    SampleSizeDone =>
        \A a \in SmallerEs :
            SampleSizeAt(a).st = "returned" => SampleSizeAt(a).val > ret.val

(***************************************************************************)
(* C14, amended: the required sample size never increases with the target  *)
(* effect size, sample_size(es=a) >= sample_size(es=b) for a < b; being a  *)
(* whole count, it stays the same between nearby targets.                  *)
(***************************************************************************)
C14_NonIncreasing ==
    SampleSizeDone =>
        \A a \in SmallerEs :
            SampleSizeAt(a).st = "returned" => SampleSizeAt(a).val >= ret.val

\* A smaller target that needs the same count, and one that needs more.
C14_Witness ==
    /\ SampleSizeDone
    /\ \E a \in SmallerEs :
          SampleSizeAt(a).st = "returned" /\ SampleSizeAt(a).val = ret.val
    /\ \E a \in SmallerEs :
          SampleSizeAt(a).st = "returned" /\ SampleSizeAt(a).val > ret.val

EffectSizeWithR21(r) == effect_size(call.design, Put(call.kw, "r21", r))

C16_PowerInUnitInterval ==
    PowerDone =>
        /\ PiGrid[ret.val.cell] > 0
        /\ ret.val.den > 0 /\ ret.val.num >= 0
        /\ IF PiGrid[ret.val.cell + 1] < ProbScale
           THEN ret.val.num <= ret.val.den
           ELSE ret.val.num < ret.val.den

\* A root beyond the last tabulated probability.
C16_Witness == PowerDone /\ PiGrid[ret.val.cell + 1] = ProbScale

(***************************************************************************)
(* C17: at equal alpha, power and other arguments, the sample size of the  *)
(* one-tailed test is no larger than that of the two-tailed test.          *)
(***************************************************************************)
OneTailedSampleSize == sample_size(call.design, Put(call.kw, "two_tailed", FALSE))

C17_OneTailedNoLarger ==
    (SampleSizeDone /\ call.kw["two_tailed"]) =>
        (OneTailedSampleSize.st = "returned" => OneTailedSampleSize.val <= ret.val)

\* A two-tailed count with a strictly smaller one-tailed count.
C17_Witness ==
    /\ SampleSizeDone /\ call.kw["two_tailed"]
    /\ OneTailedSampleSize.st = "returned"
    /\ OneTailedSampleSize.val < ret.val

(***************************************************************************)
(* C18: N = sample_size(es=X) is the smallest count whose MDES is at most  *)
(* X: effect_size with the count N is <= X, and with N - 1, or any smaller *)
(* count, it is > X.                                                       *)
(***************************************************************************)
EffectSizeWithCount(c) ==
    effect_size(call.design, Put(Pop(call.kw, "es"), LibSsParam(call.design), c))

ShowsPrevious == view.kind = "prev"

\* The run that rendered the current view, had the stored result held other
\* computed values than it does.
ViewWithOtherCache ==
    LET other == [M |-> Fin(0), T1 |-> Fin(0), T2 |-> Fin(0), df |-> 0]
    IN NoCalculateView(Put(session_state, "last_result",
                           Put(LastResult, "computed", other)),
                       selected_design, calc_mode, PARAMS["rho_ts"].default, {})

(***************************************************************************)
(* C19, as stated: the computed values are never cached; what is displayed *)
(* and what is exported for a previous result is recomputed from the       *)
(* result's stored parameters and does not depend on values read back from *)
(* the session state.                                                      *)
(***************************************************************************)
C19_NeverReadBack ==
    ShowsPrevious =>
        /\ view.computed = {ComputedValues(selected_design, LastResult["params"])}
        /\ ViewWithOtherCache.computed = view.computed
        /\ ViewWithOtherCache.export = view.export

(***************************************************************************)
(* C19, amended: the computed values displayed for a previous result are   *)
(* recomputed from its stored parameters and do not depend on the session  *)
(* state's copy; the exported ones are the copy stored in                  *)
(* last_result['computed'] by the Calculate run, which equals the          *)
(* recomputation because parameters and design are stored with it.         *)
(***************************************************************************)
C19_DisplayFreshExportStored ==
    /\ HasResult =>
          LastResult["computed"] = ComputedValues(LastResult["design"], LastResult["params"])
    /\ ShowsPrevious =>
          /\ view.computed = {ComputedValues(selected_design, LastResult["params"])}
          /\ ViewWithOtherCache.computed = view.computed
          /\ \A e \in view.export : e.computed_values = LastResult["computed"]
          /\ \A e \in ViewWithOtherCache.export : e.computed_values # LastResult["computed"]
          /\ view.export # {}

\* A previous result on display, computed at a power other than the fallback.
C19_Witness ==
    /\ ShowsPrevious
    /\ "power" \in DOMAIN LastResult["params"]
    /\ LastResult["params"]["power"] # PARAMS["power"].default

(***************************************************************************)
(* C20: the design table is never mutated: after any sequence of reruns,   *)
(* whatever the mode and design selections, every design's params_order    *)
(* (and every other field) is what it was at start-up; the removal of the  *)
(* target count or power and the insertion of es reach only the form's     *)
(* copy of the list.                                                       *)
(***************************************************************************)
C20_DesignTableUnchanged ==
    /\ DOMAIN designs = DOMAIN DESIGNS
    /\ \A d \in DOMAIN DESIGNS :
          /\ designs[d].params_order = DesignParamsOrder(d)
          /\ designs[d] = DESIGNS[d]

\* A form whose list differs from the table's list of the selected design.
C20_Witness ==
    /\ calc_mode # "MDES (Effect Size)"
    /\ selected_design # DesignIds[1]
    /\ view.form # designs[selected_design].params_order
    /\ "es" \in {view.form[i] : i \in DOMAIN view.form}

(***************************************************************************)
(* Further properties of the helper functions (checked under SpecFn).      *)
(***************************************************************************)
\* Powers strictly inside (0, 1) among the inputs.
InnerPowers == {p \in PowerInputs : 0 < p /\ p < ProbScale}

MultiplierAt(p) == calculate_multiplier(call.alpha, p, call.df, call.two_tailed)

\* A call whose quantiles are all finite.
FiniteMultiplierCall ==
    /\ MultiplierDone
    /\ call.df >= 1
    /\ call.power \in InnerPowers
    /\ 0 < EffectiveAlpha(call.alpha, call.two_tailed)

(***************************************************************************)
(* C21: for fixed alpha, df and tails, M is monotone non-decreasing in     *)
(* power over (0, 1); at power = 0.5, where the code switches from         *)
(* T1 - T2 to T1 + T2, T2 is 0 and both branches give M = T1, so M does    *)
(* not jump or turn back across the switch.                                *)
(***************************************************************************)
C21_MultiplierMonotoneInPower ==
    FiniteMultiplierCall =>
        /\ \A p \in InnerPowers :
              p <= call.power =>
                 /\ IsFinite(MultiplierAt(p)[1]) /\ IsFinite(ret.val[1])
                 /\ MultiplierAt(p)[1].v <= ret.val[1].v
        /\ 2 * call.power = ProbScale =>
              /\ ret.val[1] = ret.val[2]
              /\ XAdd(ret.val[2], ret.val[3]) = XSub(ret.val[2], ret.val[3])

\* A call at power 0.5 with a smaller M below it and a larger one above.
C21_Witness ==
    /\ FiniteMultiplierCall
    /\ 2 * call.power = ProbScale
    /\ \E p \in InnerPowers : p < call.power /\ MultiplierAt(p)[1].v < ret.val[1].v
    /\ \E p \in InnerPowers : p > call.power /\ MultiplierAt(p)[1].v > ret.val[1].v

(***************************************************************************)
(* Properties of the form and the results column (checked under Spec).     *)
(***************************************************************************)
TableOrder == designs[selected_design].params_order

NoDuplicates(seq) == \A i, j \in DOMAIN seq : seq[i] = seq[j] => i = j

Without(seq, x) == LET keep(y) == y # x IN SelectSeq(seq, keep)

(***************************************************************************)
(* C22: the form's parameter list is derived from the selected design's    *)
(* params_order: unchanged in MDES mode; in Sample Size mode without the   *)
(* design's sample_size_for parameter and with es immediately after power; *)
(* in Power mode with es in the position of power and power gone.  The     *)
(* other parameters keep their relative order and none appears twice.      *)
(***************************************************************************)
C22_FormParameterList ==
    /\ NoDuplicates(view.form)
    /\ calc_mode = "MDES (Effect Size)" => view.form = TableOrder
    /\ calc_mode = "Sample Size" =>
          /\ Without(view.form, "es") = Without(TableOrder, DesignSampleSizeFor(selected_design))
          /\ Len(view.form) = Len(TableOrder)
          /\ \E i \in DOMAIN view.form :
                i > 1 /\ view.form[i] = "es" /\ view.form[i - 1] = "power"
    /\ calc_mode = "Power" =>
          /\ Len(view.form) = Len(TableOrder)
          /\ \A i \in DOMAIN TableOrder :
                view.form[i] = IF TableOrder[i] = "power" THEN "es" ELSE TableOrder[i]
          /\ \E i \in DOMAIN TableOrder : TableOrder[i] = "power"

\* The form of the last design of the table in Sample Size mode.
C22_Witness ==
    /\ calc_mode = "Sample Size"
    /\ selected_design = DesignIds[Len(DesignIds)]
    /\ \E i \in DOMAIN view.form : view.form[i] = "es"
    /\ \A i \in DOMAIN view.form : view.form[i] # DesignSampleSizeFor(selected_design)

(***************************************************************************)
(* C23: a previously stored result is shown only in a run in which         *)
(* Calculate was not clicked and the stored design and mode both equal the *)
(* selected ones; whatever result a run displays belongs to the selected   *)
(* design and mode, and a previous result is shown with its stored value:  *)
(* no library call is made for it.                                         *)
(***************************************************************************)
C23_PreviousResultShown ==
    /\ view.result # {} =>
          /\ HasResult
          /\ LastResult["design"] = selected_design
          /\ LastResult["mode"] = calc_mode
          /\ view.result = {[label |-> LastResult["label"], value |-> LastResult["value"]]}
    /\ ShowsPrevious =>
          /\ view.result # {}
          /\ view.curve = {} => lib_calls = {}
    /\ (HasResult /\ view.kind = "none") =>
          (LastResult["design"] # selected_design \/ LastResult["mode"] # calc_mode)

\* A previous result on display in a run without any library call.
C23_Witness == ShowsPrevious /\ lib_calls = {} /\ view.result # {}

(***************************************************************************)
(* C24: in every run the curve controls are offered exactly when a result  *)
(* is stored and its design is the selected one (the stored mode is not    *)
(* compared).  So a curve on display implies a stored result, hence an     *)
(* earlier successful Calculate, and the run of a successful Calculate     *)
(* itself offers the controls.                                             *)
(***************************************************************************)
C24_SensitivityAvailability ==
    /\ view.sens <=> (HasResult /\ LastResult["design"] = selected_design)
    /\ view.curve # {} => (HasResult /\ view.sens)
    /\ view.kind = "new" => view.sens

\* A curve generated from a result stored in another mode than the selected one.
C24_Witness ==
    /\ view.sens
    /\ view.curve # {}
    /\ HasResult
    /\ LastResult["mode"] # calc_mode

(***************************************************************************)
(* C25: every call of a generated power curve passes as es the stored      *)
(* result value when the result was stored in MDES mode and the stored es  *)
(* parameter otherwise; a result stored in Sample Size or Power mode       *)
(* always holds es, so the fallback es = 0.25 is never taken.              *)
(***************************************************************************)
PowerCurveShown == \E c \in view.curve : c.kind = "power"

StoredInMdesMode == LastResult["mode"] = "MDES (Effect Size)"

C25_PowerCurveEffectSize ==
    /\ HasResult =>
          (("es" \in DOMAIN LastResult["params"]) <=> ~StoredInMdesMode)
    /\ PowerCurveShown =>
          /\ lib_calls # {}
          /\ \A c \in lib_calls :
                /\ c.fn = "power"
                /\ "es" \in DOMAIN c.kw
                /\ IF StoredInMdesMode
                   THEN c.kw["es"] = LastResult["value"]
                   ELSE c.kw["es"] = LastResult["params"]["es"]

\* A power curve generated from a result stored in MDES mode.
C25_Witness == PowerCurveShown /\ HasResult /\ StoredInMdesMode /\ lib_calls # {}

(***************************************************************************)
(* C26: the computed-values panel of a Calculate run is determined by the  *)
(* collected form parameters alone.  In Sample Size mode the target count  *)
(* is not among them and df is the resolver's value for the fallback count *)
(* (n = 30, J/K/L = 10); in Power mode power is not among them and M and   *)
(* T2 are those of power = 0.8.                                            *)
(***************************************************************************)
CalculatedShown == view.kind = "new"

TargetCount == DESIGNS[selected_design].sample_size_for

FallbackCount(name) == IF name = "n" THEN 30 ELSE 10

PanelOf(params, power_val) ==
    LET df == get_df_for_design(selected_design, params)
        mt == calculate_multiplier(params["alpha"], power_val, df, params["two_tailed"])
    IN [M |-> mt[1], T1 |-> mt[2], T2 |-> mt[3], df |-> df]

C26_PanelFromFormParameters ==
    CalculatedShown =>
       LET params == LastResult["params"]
       IN CASE calc_mode = "Sample Size" ->
                 /\ TargetCount \notin DOMAIN params
                 /\ view.computed =
                      {PanelOf(Put(params, TargetCount, FallbackCount(TargetCount)),
                               params["power"])}
            [] calc_mode = "Power" ->
                 /\ "power" \notin DOMAIN params
                 /\ view.computed = {PanelOf(params, 1600)}
            [] OTHER ->
                 view.computed = {PanelOf(params, params["power"])}

\* A one-tailed Power-mode calculation whose panel shows the values of power = 0.8.
C26_Witness ==
    /\ CalculatedShown
    /\ calc_mode = "Power"
    /\ view.computed # {}
    /\ LastResult["params"]["two_tailed"] = 1

(***************************************************************************)
(* C27: for a design id that is not a key of the resolver's table, the     *)
(* library ids "its_nocompare" and "its_wcompare" among them,              *)
(* get_df_for_design returns 10 whatever the parameters are.               *)
(***************************************************************************)
C27_UnknownDesignDf ==
    (GetDfDone /\ call.design_id \notin DfDesigns) => ret = Returned(10)

\* A library ITS id resolved with counts that would give another df under
\* the "its" formula.
C27_Witness ==
    /\ GetDfDone
    /\ call.design_id = "its_nocompare"
    /\ "K" \in DOMAIN call.params
    /\ "T" \in DOMAIN call.params
    /\ call.params["K"] * call.params["T"] > 11
    /\ ret = Returned(10)

(***************************************************************************)
(* C28: estimate_design_effect guards only rho_ts >= 1.  For rho_ts = -1   *)
(* it raises ZeroDivisionError, for rho_ts < -1 it returns a negative      *)
(* finite value, and for |rho_ts| < 1 it returns a finite value >= 1.      *)
(***************************************************************************)
C28_DesignEffectLowerEnd ==
    DesignEffectDone =>
       /\ call.rho_ts >= RhoScale => ret = Returned(PosInf)
       /\ call.rho_ts = 0 - RhoScale => ret = Raised("ZeroDivisionError")
       /\ call.rho_ts < 0 - RhoScale =>
             /\ ret.st = "returned"
             /\ ret.val.k = "rat"
             /\ ret.val.den # 0
             /\ ret.val.num * ret.val.den < 0
       /\ (0 - RhoScale < call.rho_ts /\ call.rho_ts < RhoScale) =>
             /\ ret.st = "returned"
             /\ ret.val.k = "rat"
             /\ ret.val.den > 0
             /\ ret.val.num >= ret.val.den

\* The call with rho_ts = -1 has raised.
C28_Witness ==
    /\ DesignEffectDone
    /\ call.rho_ts = 0 - RhoScale
    /\ ret.st = "raised"

(***************************************************************************)
(* C29: for arguments the form can produce (alpha, power and tails within  *)
(* their PARAMS minimum and maximum, power = 0.8 when absent, df the       *)
(* value of get_df_for_design), both quantile arguments of                 *)
(* calculate_multiplier lie strictly between 0 and 1 and df >= 1, so M,    *)
(* T1 and T2 are finite.                                                   *)
(***************************************************************************)
InFormRange(name, v) == PARAMS[name].min <= v /\ v <= PARAMS[name].max

FormMultiplierCall ==
    /\ MultiplierDone
    /\ InFormRange("alpha", call.alpha)
    /\ InFormRange("power", call.power)
    /\ InFormRange("two_tailed", call.two_tailed)
    /\ call.df >= 1

C29_FormInputGivesFiniteMultiplier ==
    /\ InFormRange("power", 1600)
    /\ GetDfDone => (ret.st = "returned" /\ ret.val >= 1)
    /\ FormMultiplierCall =>
          LET effective_alpha == EffectiveAlpha(call.alpha, call.two_tailed)
          IN /\ 0 < ProbScale - effective_alpha
             /\ ProbScale - effective_alpha < ProbScale
             /\ 0 < ProbScale - call.power
             /\ ProbScale - call.power < ProbScale
             /\ ret.st = "returned"
             /\ \A i \in 1..3 : IsFinite(ret.val[i])

\* The corner of the form's range: smallest alpha, two tails, largest power.
C29_Witness ==
    /\ FormMultiplierCall
    /\ call.alpha = PARAMS["alpha"].min
    /\ call.two_tailed = 2
    /\ call.power = PARAMS["power"].max
    /\ IsFinite(ret.val[1])

(***************************************************************************)
(* C30: the tail count is used consistently.  In a Calculate run the       *)
(* library receives two_tailed = TRUE exactly when the form's value is 2,  *)
(* the panel's T1 is the quantile of the halved alpha in exactly those     *)
(* runs, and the stored parameters keep the integer, so that the calls of  *)
(* a later curve carry the same Boolean.                                   *)
(***************************************************************************)
StoredTails == LastResult["params"]["two_tailed"]

CallsCarryStoredTails ==
    /\ lib_calls # {}
    /\ \A c \in lib_calls :
          /\ "two_tailed" \in DOMAIN c.kw
          /\ c.kw["two_tailed"] \in BOOLEAN
          /\ c.kw["two_tailed"] <=> (StoredTails = 2)

C30_TailsConsistent ==
    /\ HasResult => StoredTails \in {1, 2}
    /\ CalculatedShown =>
          /\ CallsCarryStoredTails
          /\ \A panel \in view.computed :
                LET alpha == LastResult["params"]["alpha"]
                IN panel.T1 = TPpf(ProbScale - (IF StoredTails = 2 THEN alpha \div 2 ELSE alpha),
                                   panel.df)
    /\ view.curve # {} => CallsCarryStoredTails

\* A curve generated from a one-tailed stored result: its calls are one-tailed.
C30_Witness ==
    /\ view.curve # {}
    /\ HasResult
    /\ StoredTails = 1
    /\ \E c \in lib_calls : c.kw["two_tailed"] = FALSE

====
